---- MODULE Spec2Model ----
(***************************************************************************)
(* Model of packages/cli/src/config/firstRunSetup.ts: the first-run setup  *)
(* flow that asks the user for the OpenAI API key, base URL and model and  *)
(* writes them to the user scope of the settings store.                    *)
(*                                                                         *)
(* Strings are sequences of one-character strings, so that trimming and    *)
(* emptiness are computed and not assumed.  An optional string (a setting  *)
(* or an environment variable that may be undefined) is a set holding at   *)
(* most one string.                                                        *)
(***************************************************************************)
EXTENDS Integers, Sequences, FiniteSets, TLC

VARIABLES pc, store, env, rl, opened, closed, outstanding, answers, locals,
          config, error, calls, stdout, stderr, exitCode

vars == <<pc, store, env, rl, opened, closed, outstanding, answers, locals,
          config, error, calls, stdout, stderr, exitCode>>

----------------------------------------------------------------------------
(* Bounds and input alphabets *)

MaxLen == 2

Whitespace == {" "}

Chars == {" ", "a"}

RECURSIVE StringsUpTo(_)
StringsUpTo(n) ==
    IF n = 0 THEN {<<>>}
    ELSE LET shorter == StringsUpTo(n - 1)
         IN  shorter \cup {Append(s, c) : s \in shorter, c \in Chars}

Lines == StringsUpTo(MaxLen)

None == {}

Some(s) == {s}

PresetKeys == {None, Some(<<>>), Some(<<"a">>), Some(<<" ">>)}

----------------------------------------------------------------------------
(* Literals of the source *)

Keys == <<"openaiApiKey", "openaiBaseUrl", "openaiModel">>

UserScope == "User"

UserPath == "user-settings-path"

DefaultBaseUrl == <<"h","t","t","p","s",":","/","/","a","p","i",".","o","p","e","n","a","i",".","c","o","m","/","v","1">>

DefaultModel == <<"g","p","t","-","4">>

KeyRequired == "OpenAI API Key is required"

SetValueFailed == "setValue failed"

(* One line of terminal output: a message and its argument *)
Out(msg, arg) == [msg |-> msg, arg |-> arg]

Banner == <<Out("Welcome to Qwen Code!", ""),
            Out("Please configure your OpenAI API settings:", "")>>

Prompt(q) == Out("Enter", q)

SavedMsg == Out("Configuration saved successfully!", "")

SavedTo(path) == Out("Settings saved to:", path)

FailedMsg(e) == Out("Configuration setup failed:", e)

----------------------------------------------------------------------------
(* Pure helpers *)

RECURSIVE TrimStart(_)
TrimStart(s) ==
    IF s /= <<>> /\ Head(s) \in Whitespace THEN TrimStart(Tail(s)) ELSE s

RECURSIVE TrimEnd(_)
TrimEnd(s) ==
    IF s /= <<>> /\ s[Len(s)] \in Whitespace
    THEN TrimEnd(SubSeq(s, 1, Len(s) - 1))
    ELSE s

TrimNone(s) == s

Trim(s) == TrimEnd(TrimStart(s))

(* JavaScript truthiness of a string, and of a string that may be undefined *)
Truthy(s) == Len(s) > 0

TruthyOpt(o) == \E s \in o : Truthy(s)

KeyMissingNever(k) == FALSE

KeyMissing(k) == ~Truthy(k)

OrDefaultNone(v, d) == v

OrDefault(v, d) == IF Truthy(v) THEN v ELSE d

isFirstRunIgnoringEnv(userSettings, environment) ==
    ~TruthyOpt(userSettings.openaiApiKey)

isFirstRunEither(userSettings, environment) ==
    ~TruthyOpt(userSettings.openaiApiKey) \/ ~TruthyOpt(environment.OPENAI_API_KEY)

isFirstRun(userSettings, environment) ==
    ~TruthyOpt(userSettings.openaiApiKey) /\ ~TruthyOpt(environment.OPENAI_API_KEY)

(* The store's setter: records the value under the key in the given scope *)
setValue(st, scope, key, value) ==
    IF scope = UserScope
    THEN [st EXCEPT !.user.settings[key] = Some(value)]
    ELSE st

SetterCallSameField(cfg, k) ==
    [scope |-> UserScope, key |-> k, value |-> cfg.openaiApiKey]

SetterCall(cfg, k) == [scope |-> UserScope, key |-> k, value |-> cfg[k]]

----------------------------------------------------------------------------
(* Initial state: handleFirstRunSetup is about to be called *)

Init ==
    /\ pc = "start"
    /\ \E k \in PresetKeys :
         store = [user |-> [path |-> UserPath,
                            settings |-> [openaiApiKey |-> k,
                                          openaiBaseUrl |-> None,
                                          openaiModel |-> None]]]
    /\ \E e \in PresetKeys : env = [OPENAI_API_KEY |-> e]
    /\ rl = "none"
    /\ opened = 0
    /\ closed = 0
    /\ outstanding = {}
    /\ answers = <<>>
    /\ locals = <<>>
    /\ config = None
    /\ error = "none"
    /\ calls = <<>>
    /\ stdout = <<>>
    /\ stderr = <<>>
    /\ exitCode = -1

----------------------------------------------------------------------------
(* handleFirstRunSetup, lines 75-77 *)
CheckFirstRun ==
    /\ pc = "start"
    /\ pc' = IF ~isFirstRun(store.user.settings, env)
             THEN "returned" ELSE "createReadline"
    /\ UNCHANGED <<store, env, rl, opened, closed, outstanding, answers,
                   locals, config, error, calls, stdout, stderr, exitCode>>

(* promptForOpenAIConfig, line 32 *)
createReadlineInterface ==
    /\ pc = "createReadline"
    /\ rl' = "open"
    /\ opened' = opened + 1
    /\ pc' = "banner"
    /\ UNCHANGED <<store, env, closed, outstanding, answers, locals, config,
                   error, calls, stdout, stderr, exitCode>>

(* promptForOpenAIConfig, lines 34-35 *)
PrintBanner ==
    /\ pc = "banner"
    /\ stdout' = stdout \o Banner
    /\ pc' = "askApiKey"
    /\ UNCHANGED <<store, env, rl, opened, closed, outstanding, answers,
                   locals, config, error, calls, stderr, exitCode>>

(* askQuestion up to the pending promise: rl.question prints the prompt *)
askQuestion(q) ==
    /\ rl = "open"
    /\ stdout' = Append(stdout, Prompt(q))
    /\ outstanding' = outstanding \cup {q}
    /\ UNCHANGED <<store, env, rl, opened, closed, answers, locals, config,
                   error, calls, stderr, exitCode>>

AskApiKey ==
    /\ pc = "askApiKey"
    /\ askQuestion("openaiApiKey")
    /\ pc' = "waitApiKey"

AskBaseUrlNoAwait ==
    /\ pc = "askBaseUrl"
    /\ askQuestion("openaiBaseUrl")
    /\ pc' = "askModel"

AskBaseUrl ==
    /\ pc = "askBaseUrl"
    /\ askQuestion("openaiBaseUrl")
    /\ pc' = "waitBaseUrl"

AskModel ==
    /\ pc = "askModel"
    /\ askQuestion("openaiModel")
    /\ pc' = "waitModel"

WaitPc(q) ==
    CASE q = "openaiApiKey" -> "waitApiKey"
      [] q = "openaiBaseUrl" -> "waitBaseUrl"
      [] q = "openaiModel" -> "waitModel"

ResumePc(q) ==
    CASE q = "openaiApiKey" -> "checkApiKey"
      [] q = "openaiBaseUrl" -> "askModel"
      [] q = "openaiModel" -> "returnConfig"

(* The user enters a line: the question callback resolves the promise with *)
(* the trimmed answer and the awaiting function resumes.                   *)
Answer(q, line) ==
    /\ q \in outstanding
    /\ pc = WaitPc(q)
    /\ outstanding' = outstanding \ {q}
    /\ answers' = Append(answers, [q |-> q, line |-> line])
    /\ locals' = locals @@ (q :> Trim(line))
    /\ pc' = ResumePc(q)
    /\ UNCHANGED <<store, env, rl, opened, closed, config, error, calls,
                   stdout, stderr, exitCode>>

CheckApiKeyRetry ==
    /\ pc = "checkApiKey"
    /\ pc' = IF KeyMissing(locals.openaiApiKey) THEN "askApiKey" ELSE "askBaseUrl"
    /\ locals' = IF KeyMissing(locals.openaiApiKey) THEN <<>> ELSE locals
    /\ UNCHANGED <<store, env, rl, opened, closed, outstanding, answers,
                   config, error, calls, stdout, stderr, exitCode>>

(* promptForOpenAIConfig, lines 43-45 *)
CheckApiKey ==
    /\ pc = "checkApiKey"
    /\ IF KeyMissing(locals.openaiApiKey)
       THEN /\ error' = KeyRequired
            /\ pc' = "finally"
       ELSE /\ error' = error
            /\ pc' = "askBaseUrl"
    /\ UNCHANGED <<store, env, rl, opened, closed, outstanding, answers,
                   locals, config, calls, stdout, stderr, exitCode>>

(* promptForOpenAIConfig, lines 57-61 *)
ReturnConfig ==
    /\ pc = "returnConfig"
    /\ config' = Some([openaiApiKey |-> locals.openaiApiKey,
                       openaiBaseUrl |-> OrDefault(locals.openaiBaseUrl, DefaultBaseUrl),
                       openaiModel |-> OrDefault(locals.openaiModel, DefaultModel)])
    /\ pc' = "finally"
    /\ UNCHANGED <<store, env, rl, opened, closed, outstanding, answers,
                   locals, error, calls, stdout, stderr, exitCode>>

FinallyOnReturnOnly ==
    /\ pc = "finally"
    /\ rl' = IF error = "none" THEN "closed" ELSE rl
    /\ closed' = IF error = "none" THEN closed + 1 ELSE closed
    /\ pc' = IF error = "none" THEN "save" ELSE "catch"
    /\ UNCHANGED <<store, env, opened, outstanding, answers, locals, config,
                   error, calls, stdout, stderr, exitCode>>

(* promptForOpenAIConfig, lines 62-64: runs on return and on throw *)
Finally ==
    /\ pc = "finally"
    /\ rl' = "closed"
    /\ closed' = closed + 1
    /\ pc' = IF error = "none" THEN "save" ELSE "catch"
    /\ UNCHANGED <<store, env, opened, outstanding, answers, locals, config,
                   error, calls, stdout, stderr, exitCode>>

(* handleFirstRunSetup, lines 83-85: the next of the three setter calls *)
SaveSetting ==
    /\ pc = "save"
    /\ Len(calls) < Len(Keys)
    /\ \E cfg \in config :
         LET call == SetterCall(cfg, Keys[Len(calls) + 1])
         IN  /\ calls' = Append(calls, call)
             /\ store' = setValue(store, call.scope, call.key, call.value)
    /\ pc' = IF Len(calls') = Len(Keys) THEN "printSuccess" ELSE "save"
    /\ UNCHANGED <<env, rl, opened, closed, outstanding, answers, locals,
                   config, error, stdout, stderr, exitCode>>

(* handleFirstRunSetup, lines 83-85 and 90: a setter call that throws; the *)
(* store may or may not have taken the value before the error.             *)
SaveSettingThrows ==
    /\ pc = "save"
    /\ Len(calls) < Len(Keys)
    /\ \E cfg \in config :
         LET call == SetterCall(cfg, Keys[Len(calls) + 1])
         IN  /\ calls' = Append(calls, call)
             /\ \/ store' = setValue(store, call.scope, call.key, call.value)
                \/ store' = store
    /\ error' = SetValueFailed
    /\ pc' = "catch"
    /\ UNCHANGED <<env, rl, opened, closed, outstanding, answers, locals,
                   config, stdout, stderr, exitCode>>

(* handleFirstRunSetup, lines 87-88 *)
PrintSuccess ==
    /\ pc = "printSuccess"
    /\ stdout' = stdout \o <<SavedMsg, SavedTo(store.user.path)>>
    /\ pc' = "returned"
    /\ UNCHANGED <<store, env, rl, opened, closed, outstanding, answers,
                   locals, config, error, calls, stderr, exitCode>>

(* handleFirstRunSetup, lines 90-93 *)
CatchError ==
    /\ pc = "catch"
    /\ stderr' = Append(stderr, FailedMsg(error))
    /\ exitCode' = 1
    /\ pc' = "exited"
    /\ UNCHANGED <<store, env, rl, opened, closed, outstanding, answers,
                   locals, config, error, calls, stdout>>

Next ==
    \/ CheckFirstRun
    \/ createReadlineInterface
    \/ PrintBanner
    \/ AskApiKey
    \/ AskBaseUrl
    \/ AskModel
    \/ \E q \in {Keys[i] : i \in 1..Len(Keys)}, line \in Lines : Answer(q, line)
    \/ CheckApiKey
    \/ ReturnConfig
    \/ Finally
    \/ SaveSetting
    \/ SaveSettingThrows
    \/ PrintSuccess
    \/ CatchError

Spec == Init /\ [][Next]_vars

(* The program's own steps always run; the user answers every question asked *)
LiveSpec == Spec /\ WF_vars(Next)

----------------------------------------------------------------------------
(* Vocabulary of the properties, stated without the operators of the model *)

Range(s) == {s[i] : i \in 1..Len(s)}

IsBlank(s) == \A i \in 1..Len(s) : s[i] \in Whitespace

(* t is s without its leading and trailing whitespace *)
IsTrimOf(t, s) ==
    IF IsBlank(s) THEN t = <<>>
    ELSE \E i \in 1..Len(s), j \in 1..Len(s) :
           /\ i <= j
           /\ s[i] \notin Whitespace
           /\ s[j] \notin Whitespace
           /\ \A k \in 1..Len(s) : (k < i \/ k > j) => s[k] \in Whitespace
           /\ t = SubSeq(s, i, j)

(* The lines the user entered in answer to question q *)
LinesFor(q) == {a.line : a \in {b \in Range(answers) : b.q = q}}

Asked(q) == Cardinality({i \in 1..Len(stdout) : stdout[i] = Prompt(q)})

Absent(o) == o = None \/ o = Some(<<>>)

KeyPresent == ~Absent(store.user.settings.openaiApiKey) \/ ~Absent(env.OPENAI_API_KEY)

(* promptForOpenAIConfig has returned or thrown *)
PromptLeft == pc \in {"save", "printSuccess", "catch", "returned", "exited"} /\ opened > 0

Skipped ==
    /\ pc = "returned"
    /\ opened = 0 /\ stdout = <<>> /\ stderr = <<>> /\ calls = <<>> /\ exitCode = -1

Saved ==
    /\ pc = "returned"
    /\ Len(calls) = 3 /\ SavedMsg \in Range(stdout) /\ stderr = <<>> /\ exitCode = -1

Fatal ==
    /\ pc = "exited"
    /\ exitCode = 1 /\ Len(stderr) = 1 /\ SavedMsg \notin Range(stdout)

----------------------------------------------------------------------------
(* C1: a returned config always has a non-empty API key: the key answer it *)
(* was built from is not blank; a blank key answer (empty or whitespace    *)
(* only) leaves no config and no setter call, and no setter call ever      *)
(* carries an empty API key.                                               *)
C1_ApiKeyNeverEmpty ==
    /\ \A c \in config :
         /\ Len(c.openaiApiKey) > 0
         /\ \A line \in LinesFor("openaiApiKey") : ~IsBlank(line)
    /\ (\E line \in LinesFor("openaiApiKey") : IsBlank(line)) =>
         (config = None /\ calls = <<>> /\ pc \notin {"save", "printSuccess", "returned"})
    /\ \A i \in 1..Len(calls) :
         calls[i].key = "openaiApiKey" => calls[i].value /= <<>>

C1_Witness ==
    /\ pc = "save"
    /\ \E c \in config, line \in LinesFor("openaiApiKey") :
         Len(line) > Len(c.openaiApiKey)

(* C2 as stated: when the process exits with status 1, no setter call was  *)
(* made in the run and no field was written to the store.                  *)
C2_NoSetterCallOnFailure ==
    pc = "exited" =>
      /\ exitCode = 1
      /\ Len(calls) = 0
      /\ store.user.settings.openaiBaseUrl = None
      /\ store.user.settings.openaiModel = None

(* C3: once promptForOpenAIConfig has returned or thrown, the readline     *)
(* session is closed, and it was closed exactly once for the one session   *)
(* opened; a skipped run opens none.                                       *)
C3_SessionReleased ==
    /\ opened <= 1
    /\ closed <= opened
    /\ PromptLeft => (rl = "closed" /\ closed = 1 /\ opened = 1)
    /\ pc \in {"returned", "exited"} => (rl /= "open" /\ closed = opened)

C3_Witness ==
    /\ pc = "exited"
    /\ error = KeyRequired
    /\ rl = "closed"
    /\ opened = 1 /\ closed = 1

(* C4: the success message is printed only when exactly three setter calls *)
(* have been made, in the order API key, base URL, model, each with the    *)
(* user scope and the matching field of the returned config; a run that    *)
(* returns after prompting ends its output with the success message and    *)
(* the line naming the store's user-scope path.                            *)
C4_SuccessWritesThree ==
    /\ Len(calls) <= 3
    /\ SavedMsg \in Range(stdout) =>
         /\ Len(calls) = 3
         /\ \A c \in config : \A i \in 1..3 :
              calls[i] = [scope |-> "User", key |-> Keys[i], value |-> c[Keys[i]]]
    /\ (pc = "returned" /\ opened > 0) =>
         /\ config /= None
         /\ Len(calls) = 3
         /\ Len(stdout) >= 2
         /\ stdout[Len(stdout) - 1] = SavedMsg
         /\ stdout[Len(stdout)] = Out("Settings saved to:", store.user.path)

C4_Witness ==
    /\ pc = "returned"
    /\ Len(calls) = 3
    /\ calls[1].value = <<"a">>
    /\ calls[2].value = DefaultBaseUrl
    /\ calls[3].value = <<"a", "a">>

(* C5: when a stored user-scope API key or the environment API key is      *)
(* present at the call, the run's one step is the return, which prints     *)
(* nothing, opens no session, asks nothing, calls no setter and does not   *)
(* end the process; nothing happens after the return.                      *)
C5_SkipLeavesUnchanged ==
    [][/\ (pc = "start" /\ KeyPresent) =>
            /\ pc' = "returned"
            /\ UNCHANGED <<store, env, rl, opened, closed, outstanding, answers,
                           locals, config, error, calls, stdout, stderr, exitCode>>
            /\ stdout = <<>> /\ calls = <<>> /\ rl = "none" /\ exitCode = -1
       /\ pc = "returned" => UNCHANGED vars]_vars

C5_Witness ==
    /\ pc = "returned"
    /\ Absent(store.user.settings.openaiApiKey)
    /\ ~Absent(env.OPENAI_API_KEY)
    /\ stdout = <<>> /\ calls = <<>> /\ rl = "none"

(* C6: the first-run test sends the run on to the prompt exactly when both *)
(* the stored user-scope API key and the environment API key are undefined *)
(* or empty, sends it to the return otherwise, and changes neither the     *)
(* store nor the environment.                                              *)
C6_IsFirstRunIff ==
    [][pc = "start" =>
         /\ pc' \in {"createReadline", "returned"}
         /\ (pc' = "createReadline") <=>
              (Absent(store.user.settings.openaiApiKey) /\ Absent(env.OPENAI_API_KEY))
         /\ store' = store
         /\ env' = env]_vars

C6_Witness ==
    /\ pc = "createReadline"
    /\ store.user.settings.openaiApiKey = Some(<<>>)
    /\ env.OPENAI_API_KEY = None

(* C7: after a blank answer to the API-key question the base-URL and model *)
(* questions are never asked, no other answer is read, and once the key    *)
(* has been tested the pending error is the key-required error.            *)
C7_EmptyKeyStopsPrompts ==
    (\E line \in LinesFor("openaiApiKey") : IsBlank(line)) =>
      /\ Asked("openaiBaseUrl") = 0
      /\ Asked("openaiModel") = 0
      /\ Len(answers) = 1
      /\ outstanding = {}
      /\ pc /= "checkApiKey" => error = "OpenAI API Key is required"

C7_Witness ==
    /\ pc = "exited"
    /\ answers = <<[q |-> "openaiApiKey", line |-> <<" ">>]>>
    /\ stderr = <<FailedMsg(KeyRequired)>>

(* C8: a returned config holds the trimmed API-key answer, the trimmed     *)
(* base-URL answer or, when that is empty, https://api.openai.com/v1, and  *)
(* the trimmed model answer or, when that is empty, gpt-4; its base URL    *)
(* and model are never empty, nor is any value handed to the setter.       *)
C8_TrimmedOrDefault ==
    /\ \A c \in config :
         /\ Len(answers) = 3
         /\ \A line \in LinesFor("openaiApiKey") : IsTrimOf(c.openaiApiKey, line)
         /\ \A line \in LinesFor("openaiBaseUrl") :
              IF IsBlank(line) THEN c.openaiBaseUrl = DefaultBaseUrl
              ELSE IsTrimOf(c.openaiBaseUrl, line)
         /\ \A line \in LinesFor("openaiModel") :
              IF IsBlank(line) THEN c.openaiModel = DefaultModel
              ELSE IsTrimOf(c.openaiModel, line)
         /\ c.openaiBaseUrl /= <<>>
         /\ c.openaiModel /= <<>>
    /\ \A i \in 1..Len(calls) : calls[i].value /= <<>>
    /\ (pc \in {"finally", "save", "printSuccess"} /\ error = "none") => config /= None

C8_Witness ==
    /\ pc = "save"
    /\ LinesFor("openaiBaseUrl") = {<<" ">>}
    /\ LinesFor("openaiModel") = {<<"a", " ">>}
    /\ \E c \in config : c.openaiBaseUrl = DefaultBaseUrl /\ c.openaiModel = <<"a">>

(* C9: the banner precedes every question; the base-URL question is asked  *)
(* only once the API-key answer is in, the model question only once the    *)
(* base-URL answer is in; at most one question is outstanding; no question *)
(* is asked twice; no setter call precedes the third answer.               *)
C9_Sequential ==
    /\ stdout /= <<>> => (Len(stdout) >= 2 /\ SubSeq(stdout, 1, 2) = Banner)
    /\ Asked("openaiBaseUrl") > 0 => LinesFor("openaiApiKey") /= {}
    /\ Asked("openaiModel") > 0 => LinesFor("openaiBaseUrl") /= {}
    /\ Cardinality(outstanding) <= 1
    /\ \A i \in 1..3 : Asked(Keys[i]) <= 1
    /\ \A i \in 1..Len(answers) : answers[i].q = Keys[i]
    /\ calls /= <<>> => Len(answers) = 3

C9_Witness ==
    /\ pc = "waitModel"
    /\ outstanding = {"openaiModel"}
    /\ Len(answers) = 2
    /\ Asked("openaiModel") = 1

(* C10: with every question answered in the end, every run ends skipped,   *)
(* saved or fatal, and in exactly one of them; no question is asked again; *)
(* while a question is outstanding the only step is the user's answer.     *)
C10_ReachesOneOutcome ==
    /\ <>(Skipped \/ Saved \/ Fatal)
    /\ [](pc \in {"returned", "exited"} =>
            /\ (Skipped \/ Saved \/ Fatal)
            /\ ~(Skipped /\ Saved) /\ ~(Skipped /\ Fatal) /\ ~(Saved /\ Fatal))
    /\ [](\A i \in 1..3 : Asked(Keys[i]) <= 1)
    /\ [][outstanding /= {} =>
            /\ Len(answers') = Len(answers) + 1
            /\ outstanding' = {}
            /\ UNCHANGED <<stdout, stderr, calls, exitCode, store>>]_vars

C10_Witness ==
    /\ Saved
    /\ Len(answers) = 3
    /\ rl = "closed"

====
